---- MODULE Spec2Model ----
(***************************************************************************)
(* Model of the one_or_many crate (src/src/lib.rs): the OneOrMany<T>       *)
(* container, its constructors, push/extend, and its consuming iterator    *)
(* OneOrManyIntoIter<T>.                                                   *)
(*                                                                         *)
(* A driver builds one container `c` with any of the constructors, calls   *)
(* push/extend on it, then consumes it with into_iter and repeated next.   *)
(* A second container `d` is built by the same constructor call and        *)
(* receives the same items, but strictly one push at a time.               *)
(***************************************************************************)
EXTENDS Integers, Sequences, FiniteSets, TLC

\* ---- bounds ----------------------------------------------------------
NumVals  == 2      \* item values are 1..NumVals
MaxLen   == 4      \* cap on the number of items ever put in a container
MaxBatch == 2      \* longest Vec / iterator handed to a constructor or extend

Vals == 1..NumVals

SeqsUpTo(n) == UNION {[1..k -> Vals] : k \in 0..n}

\* ---- Option<T> ---------------------------------------------------------
None == [is_some |-> FALSE]

Some(v) == [is_some |-> TRUE, val |-> v]

\* ---- enum OneOrMany<T> -------------------------------------------------
Single(o) == [tag |-> "Single", opt |-> o]

Many(v) == [tag |-> "Many", vec |-> v]

\* outcome of a call that panicked (Option::unwrap on None)
Panicked == [tag |-> "Panic"]

\* the items a container value stores, read off its representation
contents(c) ==
    CASE c.tag = "Single" -> IF c.opt.is_some THEN <<c.opt.val>> ELSE <<>>
      [] c.tag = "Many"   -> c.vec
      [] OTHER            -> <<>>

\* ---- impl OneOrMany ----------------------------------------------------
\* variant: the empty container starts with an empty vector
new_many == Many(<<>>)

new == Single(None)

default == new

\* variant: is_one decided by the item count
is_one_by_count(c) == Len(contents(c)) = 1

is_one(c) == c.tag = "Single" /\ c.opt.is_some

is_many(c) == c.tag = "Many"

\* variant: every Single counts as one item
len_any_single(c) ==
    CASE c.tag = "Single" -> 1
      [] c.tag = "Many"   -> Len(c.vec)
      [] OTHER            -> 0

len(c) ==
    CASE c.tag = "Single" /\ c.opt.is_some -> 1
      [] c.tag = "Many"                    -> Len(c.vec)
      [] OTHER                             -> 0

\* variant: the conventional meaning, true when nothing is stored
is_empty_when_zero(c) == len(c) = 0

is_empty(c) == len(c) # 0

\* Option::take().unwrap(): the value, or a panic when the slot is None
take_unwrap(o) == IF o.is_some THEN [ok |-> TRUE, val |-> o.val] ELSE [ok |-> FALSE]

\* variant: the new item is placed before the existing one on promotion
push_swapped(c, item) ==
    CASE c.tag = "Single" /\ ~c.opt.is_some -> Single(Some(item))
      [] c.tag = "Single" /\ c.opt.is_some  -> Many(<<item, c.opt.val>>)
      [] c.tag = "Many"                     -> Many(Append(c.vec, item))
      [] OTHER                              -> c

\* variant: the first item already allocates the vector
push_eager(c, item) ==
    CASE c.tag = "Single" /\ ~c.opt.is_some -> Many(<<item>>)
      [] c.tag = "Single" /\ c.opt.is_some  -> Many(<<c.opt.val, item>>)
      [] c.tag = "Many"                     -> Many(Append(c.vec, item))
      [] OTHER                              -> c

\* variant: on an occupied Single the new item overwrites the stored one
push_overwrite(c, item) ==
    CASE c.tag = "Single" -> Single(Some(item))
      [] c.tag = "Many"   -> Many(Append(c.vec, item))
      [] OTHER            -> c

\* variant: the Single(occupied) arm is tried before the Single(None) arm
push_occupied_first(c, item) ==
    IF c.tag = "Single" THEN
        LET this == take_unwrap(c.opt)
        IN  IF this.ok THEN Many(<<this.val, item>>) ELSE Panicked
    ELSE IF c.tag = "Many" THEN Many(Append(c.vec, item))
    ELSE c

\* the match arms in source order: Single(None), Single(occupied), Many(list)
push(c, item) ==
    IF c.tag = "Single" /\ ~c.opt.is_some THEN Single(Some(item))
    ELSE IF c.tag = "Single" THEN
        LET this == take_unwrap(c.opt)
        IN  IF this.ok THEN Many(<<this.val, item>>) ELSE Panicked
    ELSE IF c.tag = "Many" THEN Many(Append(c.vec, item))
    ELSE c

\* iter.into_iter().for_each(|item| self.push(item))
RECURSIVE for_each_push(_, _)
for_each_push(c, s) ==
    IF s = <<>> THEN c ELSE for_each_push(push(c, Head(s)), Tail(s))

\* iter.into_iter().fold(init, |mut this, item| { this.push(item); this })
RECURSIVE fold_push(_, _)
fold_push(acc, s) ==
    IF s = <<>> THEN acc ELSE fold_push(push(acc, Head(s)), Tail(s))

\* variant: the source is collected into a Vec and wrapped
from_iter_wrapped(s) == Many(s)

from_iter(s) == fold_push(new, s)

Reverse(s) == [i \in 1..Len(s) |-> s[Len(s) + 1 - i]]

\* variant: the input is consumed back to front
extend_reversed(c, s) == for_each_push(c, Reverse(s))

\* variant: the container is rebuilt from its items and the input
extend_recollect(c, s) == fold_push(new, contents(c) \o s)

\* variant: a Single is promoted to Many before the items are pushed
extend_promote(c, s) ==
    for_each_push(IF c.tag = "Single" THEN Many(contents(c)) ELSE c, s)

extend(c, s) == for_each_push(c, s)

from_option(o) == Single(o)

\* variant: the bare value is wrapped in a one-element vector
from_value_vec(v) == Many(<<v>>)

from_value(v) == Single(Some(v))

\* variant: short vectors are stored in the Single shape
from_vec_compact(v) ==
    IF Len(v) = 0 THEN Single(None)
    ELSE IF Len(v) = 1 THEN Single(Some(v[1]))
    ELSE Many(v)

from_vec(v) == Many(v)

\* ---- OneOrManyIntoIter<T> ----------------------------------------------
IterSingle(o) == [tag |-> "Single", opt |-> o]

\* std::vec::IntoIter: the elements not yet yielded, front first
IterMany(rest) == [tag |-> "Many", rest |-> rest]

NoIter == [tag |-> "NoIter"]

into_iter(c) ==
    CASE c.tag = "Single" -> IterSingle(c.opt)
      [] c.tag = "Many"   -> IterMany(c.vec)
      [] OTHER            -> NoIter

\* variant: the Many arm takes elements from the back
next_back(i) ==
    CASE i.tag = "Single" -> [ret |-> i.opt, it |-> IterSingle(None)]
      [] i.tag = "Many"   ->
            IF i.rest = <<>>
            THEN [ret |-> None, it |-> i]
            ELSE [ret |-> Some(i.rest[Len(i.rest)]),
                  it |-> IterMany(SubSeq(i.rest, 1, Len(i.rest) - 1))]
      [] OTHER            -> [ret |-> None, it |-> i]

\* variant: the Single arm reads the slot without taking the value out
next_peek(i) ==
    CASE i.tag = "Single" -> [ret |-> i.opt, it |-> i]
      [] i.tag = "Many"   ->
            IF i.rest = <<>>
            THEN [ret |-> None, it |-> i]
            ELSE [ret |-> Some(Head(i.rest)), it |-> IterMany(Tail(i.rest))]
      [] OTHER            -> [ret |-> None, it |-> i]

\* returns the yielded Option and the iterator afterwards
next(i) ==
    CASE i.tag = "Single" -> [ret |-> i.opt, it |-> IterSingle(None)]
      [] i.tag = "Many"   ->
            IF i.rest = <<>>
            THEN [ret |-> None, it |-> i]
            ELSE [ret |-> Some(Head(i.rest)), it |-> IterMany(Tail(i.rest))]
      [] OTHER            -> [ret |-> None, it |-> i]

\* an empty container of the same shape as c
EmptyLike(c) == IF is_many(c) THEN from_vec(<<>>) ELSE new

\* ---- state -------------------------------------------------------------
VARIABLES
    c,        \* the container under test
    d,        \* same constructor call, then fed by push only
    pending,  \* items given to c that d has not been pushed yet
    ctor,     \* which constructor built c
    hist,     \* every item handed to c, constructor items first, in order
    op,       \* the last call made: "ctor", "push", "extend", "into_iter", "next", "roundtrip"
    arg,      \* the items passed to that call
    phase,    \* "live": c is owned; "iter": c was moved into `it`; "done"
    it,       \* the OneOrManyIntoIter
    ret,      \* what the last next() returned
    out,      \* everything next() has yielded so far
    rt        \* the container rebuilt from `out`

vars == <<c, d, pending, ctor, hist, op, arg, phase, it, ret, out, rt>>

OptSeq(o) == IF o.is_some THEN <<o.val>> ELSE <<>>

Options == {None} \cup {Some(v) : v \in Vals}

\* the constructor calls: name, argument items, resulting value
Constructions ==
    {[ctor |-> "new", items |-> <<>>, value |-> new],
     [ctor |-> "default", items |-> <<>>, value |-> default]}
    \cup {[ctor |-> "from_option", items |-> OptSeq(o), value |-> from_option(o)] : o \in Options}
    \cup {[ctor |-> "from_value", items |-> <<v>>, value |-> from_value(v)] : v \in Vals}
    \cup {[ctor |-> "from_vec", items |-> s, value |-> from_vec(s)] : s \in SeqsUpTo(MaxBatch)}
    \cup {[ctor |-> "from_iter", items |-> s, value |-> from_iter(s)] : s \in SeqsUpTo(MaxBatch)}

Init ==
    \E k \in Constructions :
        /\ c = k.value
        /\ d = k.value
        /\ pending = <<>>
        /\ ctor = k.ctor
        /\ hist = k.items
        /\ op = "ctor"
        /\ arg = k.items
        /\ phase = "live"
        /\ it = NoIter
        /\ ret = None
        /\ out = <<>>
        /\ rt = new

Push ==
    /\ phase = "live"
    /\ Len(hist) < MaxLen
    /\ \E item \in Vals :
        /\ c' = push(c, item)
        /\ pending' = Append(pending, item)
        /\ hist' = Append(hist, item)
        /\ arg' = <<item>>
    /\ op' = "push"
    /\ UNCHANGED <<d, ctor, phase, it, ret, out, rt>>

Extend ==
    /\ phase = "live"
    /\ \E s \in SeqsUpTo(MaxBatch) :
        /\ Len(hist) + Len(s) <= MaxLen
        /\ c' = extend(c, s)
        /\ pending' = pending \o s
        /\ hist' = hist \o s
        /\ arg' = s
    /\ op' = "extend"
    /\ UNCHANGED <<d, ctor, phase, it, ret, out, rt>>

\* the second container catches up by one push
TwinPush ==
    /\ pending # <<>>
    /\ d' = push(d, Head(pending))
    /\ pending' = Tail(pending)
    /\ UNCHANGED <<c, ctor, hist, op, arg, phase, it, ret, out, rt>>

\* c is moved into the iterator; `c` keeps the moved value for reference only
IntoIter ==
    /\ phase = "live"
    /\ it' = into_iter(c)
    /\ phase' = "iter"
    /\ op' = "into_iter"
    /\ arg' = <<>>
    /\ UNCHANGED <<c, d, pending, ctor, hist, ret, out, rt>>

IterNext ==
    /\ phase = "iter"
    /\ LET r == next(it) IN
        /\ it' = r.it
        /\ ret' = r.ret
        /\ out' = IF r.ret.is_some THEN Append(out, r.ret.val) ELSE out
    /\ op' = "next"
    /\ arg' = <<>>
    /\ UNCHANGED <<c, d, pending, ctor, hist, phase, rt>>

\* once the iterator is exhausted, extend an empty same-shaped container with its output
RoundTrip ==
    /\ phase = "iter"
    /\ op = "next"
    /\ ~ret.is_some
    /\ rt' = extend(EmptyLike(c), out)
    /\ phase' = "done"
    /\ op' = "roundtrip"
    /\ arg' = out
    /\ UNCHANGED <<c, d, pending, ctor, hist, it, ret, out>>

Next ==
    \/ Push
    \/ Extend
    \/ TwinPush
    \/ IntoIter
    \/ IterNext
    \/ RoundTrip

Spec == Init /\ [][Next]_vars

\* ---- properties ------------------------------------------------------

\* C1: len() is the true number of items handed to the container: n after
\* n appended items, 0 or 1 in Single shape, the vector length in Many shape.
LenIsTrueCount ==
    /\ len(c) = Len(hist)
    /\ c.tag = "Single" => len(c) \in {0, 1}
    /\ c.tag = "Many" => len(c) = Len(c.vec)

LenIsTrueCountWitness ==
    ctor = "new" /\ op = "push" /\ Len(hist) = 3 /\ is_many(c)

\* C2: consuming iteration yields the items in the order they were handed to
\* the container (constructor items first), nothing reordered, dropped or
\* deduplicated: the output is always a prefix of the history, and it is the
\* whole history once next() has returned None.
IterationPreservesOrder ==
    /\ Len(out) <= Len(hist)
    /\ out = SubSeq(hist, 1, Len(out))
    /\ (phase = "iter" /\ op = "next" /\ ~ret.is_some) => out = hist

IterationPreservesOrderWitness ==
    /\ ctor = "new" /\ phase = "iter" /\ op = "next" /\ ~ret.is_some
    /\ Len(out) = 3 /\ out[1] # out[2] /\ out[2] = out[3]

\* C3: the shape is Single iff at most one item is held and the container was
\* not constructed directly from a Vec; it is Many iff two or more items are
\* held or the container was constructed directly from a Vec.
ShapeByCountAndOrigin ==
    /\ c.tag = "Single" <=> (Len(hist) <= 1 /\ ctor # "from_vec")
    /\ c.tag = "Many" <=> (Len(hist) >= 2 \/ ctor = "from_vec")

ShapeByCountAndOriginWitness ==
    ctor = "from_iter" /\ op = "push" /\ Len(hist) = 1 /\ c.tag = "Single"

ShapeRank(x) == IF x.tag = "Many" THEN 2 ELSE IF x.opt.is_some THEN 1 ELSE 0

\* C4: shape transitions are monotonic (Empty -> One -> Many) and a Many
\* container stays Many after every later operation.
ShapeMonotonic ==
    [][/\ ShapeRank(c') >= ShapeRank(c)
       /\ is_many(c) => is_many(c')]_vars

ShapeMonotonicWitness ==
    ctor = "from_vec" /\ op = "extend" /\ is_many(c) /\ Len(hist) <= 1

\* C5: is_one() holds iff the shape is Single and exactly one item is held;
\* is_many() holds iff the shape is Many whatever the item count; never both.
PredicatesMatchShape ==
    /\ is_one(c) <=> (c.tag = "Single" /\ Len(hist) = 1)
    /\ is_many(c) <=> c.tag = "Many"
    /\ (c.tag = "Many" /\ Len(hist) <= 1) => (is_many(c) /\ ~is_one(c))
    /\ ~(is_one(c) /\ is_many(c))

PredicatesMatchShapeWitness ==
    c.tag = "Many" /\ Len(hist) = 1 /\ op = "extend"

\* C6: From<Vec<T>> always gives Many shape holding the Vec's elements in
\* order; for a one-element Vec: is_many, not is_one, len 1, and a different
\* value from new() followed by one push of that element.
FromVecIsMany ==
    (op = "ctor" /\ ctor = "from_vec") =>
        /\ is_many(c)
        /\ c.vec = arg
        /\ len(c) = Len(arg)
        /\ Len(arg) = 1 =>
            /\ ~is_one(c)
            /\ len(c) = 1
            /\ c # push(new, arg[1])
            /\ is_one(push(new, arg[1]))

FromVecIsManyWitness ==
    op = "ctor" /\ ctor = "from_vec" /\ Len(arg) = 1

\* C7: extend(items) leaves the container in the state reached by one push
\* per item in input order: whenever the push-only container has received
\* every item, the two containers are equal.
ExtendEqualsPushes ==
    pending = <<>> => d = c

ExtendEqualsPushesWitness ==
    /\ ctor = "from_value" /\ op = "extend" /\ Len(arg) = 2 /\ arg[1] # arg[2]
    /\ pending = <<>> /\ phase = "live"

\* C8: from_iter(s) is the state reached from new() by extend(s); a source of
\* 0 or 1 elements gives Single shape, 2 or more gives Many shape.
FromIterEqualsExtend ==
    (op = "ctor" /\ ctor = "from_iter") =>
        /\ c = extend(new, arg)
        /\ Len(arg) <= 1 => c.tag = "Single"
        /\ Len(arg) >= 2 => c.tag = "Many"

FromIterEqualsExtendWitness ==
    op = "ctor" /\ ctor = "from_iter" /\ Len(arg) = 2 /\ arg[1] # arg[2]

\* C9: extending an empty container of the same shape with the complete
\* output of the consuming iteration reproduces the original elements in the
\* same order, and the same length.
RoundTripReproduces ==
    phase = "done" =>
        /\ contents(rt) = contents(c)
        /\ len(rt) = len(c)

RoundTripReproducesWitness ==
    phase = "done" /\ Len(contents(c)) = 3 /\ c.vec[1] # c.vec[3]

\* C10: extend with an empty input changes nothing: shape, length and
\* stored elements are the same before and after.
ExtendEmptyIsNoOp ==
    [][(phase = "live" /\ op' = "extend" /\ arg' = <<>>) =>
          /\ c' = c
          /\ c'.tag = c.tag
          /\ len(c') = len(c)
          /\ contents(c') = contents(c)]_vars

ExtendEmptyIsNoOpWitness ==
    op = "extend" /\ arg = <<>> /\ is_one(c)

\* C11: is_empty() is len() != 0: it is true exactly when at least one item
\* is held and false exactly when none is, so a freshly constructed empty
\* container reports is_empty() = false.
IsEmptyIsLenNonZero ==
    /\ is_empty(c) <=> (len(c) # 0)
    /\ is_empty(c) <=> (Len(hist) >= 1)
    /\ (op = "ctor" /\ hist = <<>>) => ~is_empty(c)

IsEmptyIsLenNonZeroWitness ==
    op = "ctor" /\ ctor = "new" /\ ~is_empty(c)

\* the container the incremental path builds: new() and one push per item
Incremental == for_each_push(new, hist)

\* C12: From(None) equals new(), From(Some(v)) and From(v) equal new()
\* followed by push(v), and after any further push/extend calls the converted
\* container and the incrementally built one have the same shape, len(),
\* is_one(), is_many() and iteration output.
FromOptionLikeIncremental ==
    /\ from_option(None) = new
    /\ (ctor \in {"from_option", "from_value"}) =>
        /\ (op = "ctor" /\ Len(arg) = 1) => c = push(new, arg[1])
        /\ c = Incremental
        /\ c.tag = Incremental.tag
        /\ len(c) = len(Incremental)
        /\ is_one(c) = is_one(Incremental)
        /\ is_many(c) = is_many(Incremental)
        /\ (phase = "iter" /\ op = "into_iter") => it = into_iter(Incremental)
        /\ (phase = "iter" /\ op = "next" /\ ~ret.is_some) => out = contents(Incremental)

FromOptionLikeIncrementalWitness ==
    /\ ctor = "from_value" /\ phase = "iter" /\ op = "next" /\ ~ret.is_some
    /\ Len(out) = 2

\* C13: a container fresh from new() or Default::default() is Single holding
\* nothing: len 0, not is_one, not is_many, and its iteration yields nothing.
FreshIsEmptySingle ==
    (ctor \in {"new", "default"}) =>
        /\ op = "ctor" =>
            /\ c = Single(None)
            /\ len(c) = 0
            /\ ~is_one(c)
            /\ ~is_many(c)
            /\ ~next(into_iter(c)).ret.is_some
        /\ (hist = <<>> /\ phase = "iter" /\ op = "next") =>
            /\ ~ret.is_some
            /\ out = <<>>

FreshIsEmptySingleWitness ==
    ctor = "default" /\ hist = <<>> /\ phase = "iter" /\ op = "next" /\ pending = <<>>

\* C14: push(item) on an empty Single stores the item and stays Single; on a
\* Single holding e it becomes Many [e, item]; on a Many holding s it becomes
\* Many s ++ [item]. len() grows by exactly 1 and the stored elements keep
\* their values and order.
PushThreeCases ==
    [][Push =>
        LET item == arg'[1] IN
        /\ (c.tag = "Single" /\ ~c.opt.is_some) => c' = Single(Some(item))
        /\ (c.tag = "Single" /\ c.opt.is_some) => c' = Many(<<c.opt.val, item>>)
        /\ c.tag = "Many" => c' = Many(Append(c.vec, item))
        /\ len(c') = len(c) + 1
        /\ contents(c') = Append(contents(c), item)]_vars

PushThreeCasesWitness ==
    ctor = "from_value" /\ op = "push" /\ Len(hist) = 2 /\ is_many(c) /\ c.vec[1] # c.vec[2]

\* C15: no operation panics: the take().unwrap() of push's second arm is only
\* reached with a value in the slot, whatever constructor built the container
\* and whatever push/extend calls followed.
NeverPanics ==
    /\ c.tag \in {"Single", "Many"}
    /\ d.tag \in {"Single", "Many"}
    /\ rt.tag \in {"Single", "Many"}
    /\ (phase = "live" /\ c.tag = "Single" /\ c.opt # None) => take_unwrap(c.opt).ok
    /\ \A item \in Vals : push(c, item) # Panicked

NeverPanicsWitness ==
    ctor = "from_option" /\ op = "push" /\ Len(hist) = 2 /\ Len(arg) = 1 /\ is_many(c)

\* C16: consuming iteration is finite and non-restartable: while fewer than n
\* elements have been yielded, next() returns the next stored element in
\* order; once all n have been yielded, next() returns None, now and on every
\* later call; a Single yields its value at most once.
IterationFinite ==
    [][IterNext =>
        /\ Len(out) < Len(hist) =>
            /\ ret' = Some(hist[Len(out) + 1])
            /\ out' = Append(out, hist[Len(out) + 1])
        /\ Len(out) >= Len(hist) =>
            /\ ret' = None
            /\ out' = out
        /\ it'.tag = "Single" => it'.opt = None]_vars

IterationFiniteWitness ==
    /\ phase = "iter" /\ op = "next" /\ ~ret.is_some
    /\ it.tag = "Single" /\ Len(out) = 1 /\ ctor = "new"

====
